---- MODULE Spec2Model ----
(***************************************************************************)
(* State-machine model of archivebox/api/models.py: the APIToken           *)
(* credential (token generation, uniqueness, expiry, validity, display)    *)
(* and the ABID declarations of APIToken and OutboundWebhook.              *)
(*                                                                         *)
(* Strings are sequences of one-character strings.  None is the empty      *)
(* sequence.  A datetime is <<ordinal day, second of day, microsecond>>,   *)
(* the three fields CPython compares and adds timedeltas on.               *)
(***************************************************************************)
EXTENDS Integers, Sequences, FiniteSets, TLC

VARIABLES
    users,      \* primary keys of the principals that exist
    apitokens,  \* stored APIToken rows
    webhooks,   \* stored OutboundWebhook rows
    pc,         \* where each issuing caller stands
    inst,       \* the unsaved or just saved instance each caller holds
    attempts,   \* INSERTs each caller's current issuance has made
    now,        \* timezone.now()
    edits,      \* assignments made to source attributes of records
    result      \* the last call made on a record, with its inputs and value

vars == <<users, apitokens, webhooks, pc, inst, attempts, now, edits, result>>

None == <<>>

\* Python truthiness of an optional datetime: None is falsy, every datetime
\* object is truthy (datetime defines neither __bool__ nor __len__).
Truthy(x) == x # None

-----------------------------------------------------------------------------
(* datetime arithmetic, comparison and isoformat, as CPython computes them *)

DAYS_IN_MONTH == <<31, 28, 31, 30, 31, 30, 31, 31, 30, 31, 30, 31>>

DAYS_BEFORE_MONTH == <<0, 31, 59, 90, 120, 151, 181, 212, 243, 273, 304, 334>>

IsLeap(y) == y % 4 = 0 /\ (y % 100 # 0 \/ y % 400 = 0)

DaysBeforeYear(y) ==
    (y - 1) * 365 + ((y - 1) \div 4) - ((y - 1) \div 100) + ((y - 1) \div 400)

DaysBeforeMonth(y, m) ==
    DAYS_BEFORE_MONTH[m] + (IF m > 2 /\ IsLeap(y) THEN 1 ELSE 0)

DaysInMonth(y, m) == IF m = 2 /\ IsLeap(y) THEN 29 ELSE DAYS_IN_MONTH[m]

\* date.toordinal(): 0001-01-01 is day 1
Ymd2Ord(y, m, d) == DaysBeforeYear(y) + DaysBeforeMonth(y, m) + d

\* date.fromordinal(): <<year, month, day>>
Ord2Ymd(ord) ==
    LET n0   == ord - 1
        n400 == n0 \div 146097
        r400 == n0 % 146097
        n100 == r400 \div 36524
        r100 == r400 % 36524
        n4   == r100 \div 1461
        r4   == r100 % 1461
        n1   == r4 \div 365
        n    == r4 % 365
        year == n400 * 400 + 1 + n100 * 100 + n4 * 4 + n1
    IN  IF n1 = 4 \/ n100 = 4
        THEN <<year - 1, 12, 31>>
        ELSE LET leap  == n1 = 3 /\ (n4 # 24 \/ n100 = 3)
                 m0    == (n + 50) \div 32
                 prec0 == DAYS_BEFORE_MONTH[m0] + (IF m0 > 2 /\ leap THEN 1 ELSE 0)
                 month == IF prec0 > n THEN m0 - 1 ELSE m0
                 prec  == IF prec0 > n
                          THEN prec0 - (DAYS_IN_MONTH[month]
                                        + (IF month = 2 /\ leap THEN 1 ELSE 0))
                          ELSE prec0
             IN  <<year, month, n - prec + 1>>

DateTime(y, m, d, hh, mm, ss, us) == <<Ymd2Ord(y, m, d), hh * 3600 + mm * 60 + ss, us>>

\* datetime.__lt__: field-wise comparison of (day, second, microsecond)
DtLess(a, b) ==
    \/ a[1] < b[1]
    \/ a[1] = b[1] /\ a[2] < b[2]
    \/ a[1] = b[1] /\ a[2] = b[2] /\ a[3] < b[3]

\* datetime + timedelta(days=n)
AddDays(dt, n) == <<dt[1] + n, dt[2], dt[3]>>

\* datetime + timedelta(seconds=k), -86400 < k < 86400
AddSeconds(dt, k) ==
    LET s == dt[2] + k
    IN  IF s < 0 THEN <<dt[1] - 1, s + 86400, dt[3]>>
        ELSE IF s >= 86400 THEN <<dt[1] + 1, s - 86400, dt[3]>>
        ELSE <<dt[1], s, dt[3]>>

Digits == <<"0", "1", "2", "3", "4", "5", "6", "7", "8", "9">>

Pow(b, e) == IF e = 0 THEN 1 ELSE
             IF e = 1 THEN b ELSE
             IF e = 2 THEN b * b ELSE
             IF e = 3 THEN b * b * b ELSE
             IF e = 4 THEN b * b * b * b ELSE
             IF e = 5 THEN b * b * b * b * b ELSE b * b * b * b * b * b

\* "%0<w>d" % n
ZPad(n, w) == [i \in 1..w |-> Digits[((n \div Pow(10, w - i)) % 10) + 1]]

\* datetime.isoformat() of an aware UTC datetime:
\* YYYY-MM-DDTHH:MM:SS[.ffffff]+00:00
IsoFormat(dt) ==
    LET ymd == Ord2Ymd(dt[1])
        hh  == dt[2] \div 3600
        mi  == (dt[2] % 3600) \div 60
        ss  == dt[2] % 60
    IN  ZPad(ymd[1], 4) \o <<"-">> \o ZPad(ymd[2], 2) \o <<"-">> \o ZPad(ymd[3], 2)
        \o <<"T">> \o ZPad(hh, 2) \o <<":">> \o ZPad(mi, 2) \o <<":">> \o ZPad(ss, 2)
        \o (IF dt[3] # 0 THEN <<".">> \o ZPad(dt[3], 6) ELSE <<>>)
        \o <<"+", "0", "0", ":", "0", "0">>

-----------------------------------------------------------------------------
(* generate_secret_token *)

HexDigits == <<"0", "1", "2", "3", "4", "5", "6", "7",
               "8", "9", "a", "b", "c", "d", "e", "f">>

\* number of random bytes requested from secrets.token_hex
TokenBytes == 16

\* number of distinct byte strings the random source can deliver in the model
NumSeeds == 2

\* secrets.token_bytes(n): one of the byte strings the random source delivers
RandomBytes(n, seed) == [i \in 1..n |-> ((i - 1) * 17 + seed * 15) % 256]

\* binascii.hexlify: two hex digits per byte
Hexlify(bytes) ==
    [i \in 1..(2 * Len(bytes)) |->
        IF i % 2 = 1 THEN HexDigits[(bytes[(i + 1) \div 2] \div 16) + 1]
                     ELSE HexDigits[(bytes[i \div 2] % 16) + 1]]

\* token_hex called with the wanted length in characters instead of bytes
generate_secret_token_Chars(seed) == Hexlify(RandomBytes(2 * TokenBytes, seed))

\* generate_secret_token() = secrets.token_hex(16)
generate_secret_token(seed) == Hexlify(RandomBytes(TokenBytes, seed))

\* uuid.uuid4(): 16 random bytes with the version and variant bits set,
\* held as its 32 hex digits
uuid4(seed) ==
    LET raw == RandomBytes(16, seed + 7)
        b   == [i \in 1..16 |->
                  IF i = 7 THEN (raw[i] % 16) + 64
                  ELSE IF i = 9 THEN (raw[i] % 64) + 128
                  ELSE raw[i]]
    IN  Hexlify(b)

\* str(UUID): 8-4-4-4-12
StrUuid(u) ==
    IF u = None THEN <<"N", "o", "n", "e">>
    ELSE SubSeq(u, 1, 8) \o <<"-">> \o SubSeq(u, 9, 12) \o <<"-">>
         \o SubSeq(u, 13, 16) \o <<"-">> \o SubSeq(u, 17, 20) \o <<"-">>
         \o SubSeq(u, 21, 32)

\* str(int) for the small non-negative primary keys of principals
StrInt(n) == IF n < 10 THEN <<Digits[n + 1]>>
             ELSE <<Digits[(n \div 10) + 1], Digits[(n % 10) + 1]>>

-----------------------------------------------------------------------------
(* character order, used to compare identifiers as strings *)

Printable ==
    <<" ", "!", "dquote", "#", "$", "%", "&", "'", "(", ")", "*", "+", ",", "-", ".", "/",
      "0", "1", "2", "3", "4", "5", "6", "7", "8", "9", ":", ";", "<", "=", ">", "?",
      "@", "A", "B", "C", "D", "E", "F", "G", "H", "I", "J", "K", "L", "M", "N", "O",
      "P", "Q", "R", "S", "T", "U", "V", "W", "X", "Y", "Z", "[", "backslash", "]", "^", "_",
      "backtick", "a", "b", "c", "d", "e", "f", "g", "h", "i", "j", "k", "l", "m", "n", "o",
      "p", "q", "r", "s", "t", "u", "v", "w", "x", "y", "z", "{", "|", "}", "~">>

AsciiTable ==
    [c \in {Printable[i] : i \in 1..Len(Printable)} |->
        31 + (CHOOSE i \in 1..Len(Printable) : Printable[i] = c)]

\* ord(c)
Ascii(c) == AsciiTable[c]

\* a < b for str: lexicographic by code point
StrLess(a, b) ==
    \/ \E i \in 1..Len(a) :
          /\ i <= Len(b)
          /\ \A j \in 1..(i - 1) : a[j] = b[j]
          /\ Ascii(a[i]) < Ascii(b[i])
    \/ Len(a) < Len(b) /\ \A j \in 1..Len(a) : a[j] = b[j]

StartsWith(s, p) == Len(p) <= Len(s) /\ SubSeq(s, 1, Len(p)) = p

-----------------------------------------------------------------------------
(* APIToken: expiry display and validity *)

\* timedelta(days=365 * 100)
SentinelDays == 365 * 100

\* APIToken.expires_as_iso8601, evaluated when timezone.now() is clock
expires_as_iso8601(self, clock) ==
    LET expiry_date == IF Truthy(self.expires) THEN self.expires
                       ELSE AddDays(clock, SentinelDays)
    IN  IsoFormat(expiry_date)

\* is_valid comparing with <= instead of <
is_valid_LessEq(self, for_date, clock) ==
    LET fd == IF Truthy(for_date) THEN for_date ELSE clock
    IN  IF Truthy(self.expires) /\ (DtLess(self.expires, fd) \/ self.expires = fd)
        THEN FALSE
        ELSE TRUE

\* APIToken.is_valid(for_date), evaluated when timezone.now() is clock
is_valid(self, for_date, clock) ==
    LET fd == IF Truthy(for_date) THEN for_date ELSE clock
    IN  IF Truthy(self.expires) /\ DtLess(self.expires, fd)
        THEN FALSE
        ELSE TRUE

-----------------------------------------------------------------------------
(* ABID declarations of the two record types *)

\* the prefix of the other record type pasted into APIToken
APIToken_abid_prefix_Pasted == <<"w", "h", "k", "_">>

APIToken_abid_prefix == <<"a", "p", "t", "_">>

APIToken_abid_ts_src == "self.created"

APIToken_abid_uri_src == "self.token"

APIToken_abid_subtype_src == "self.created_by_id"

APIToken_abid_rand_src == "self.id"

OutboundWebhook_abid_prefix == <<"w", "h", "k", "_">>

OutboundWebhook_abid_ts_src == "self.created"

OutboundWebhook_abid_uri_src == "self.endpoint"

OutboundWebhook_abid_subtype_src == "self.ref"

OutboundWebhook_abid_rand_src == "self.id"

\* the name of the primary-key field (primary_key=True) of each record type
APIToken_pk == "self.id"

OutboundWebhook_pk == "self.uuid"

RecordTypes == {"APIToken", "OutboundWebhook"}

\* the declaration block of a record type
Descriptor(type) ==
    IF type = "APIToken"
    THEN [prefix      |-> APIToken_abid_prefix,
          ts_src      |-> APIToken_abid_ts_src,
          uri_src     |-> APIToken_abid_uri_src,
          subtype_src |-> APIToken_abid_subtype_src,
          rand_src    |-> APIToken_abid_rand_src,
          pk          |-> APIToken_pk]
    ELSE [prefix      |-> OutboundWebhook_abid_prefix,
          ts_src      |-> OutboundWebhook_abid_ts_src,
          uri_src     |-> OutboundWebhook_abid_uri_src,
          subtype_src |-> OutboundWebhook_abid_subtype_src,
          rand_src    |-> OutboundWebhook_abid_rand_src,
          pk          |-> OutboundWebhook_pk]

-----------------------------------------------------------------------------
(* AttributePathResolver and DeterministicIDEncoder (abid_utils) *)

ResolutionError == <<"ResolutionError">>

\* the value a source specifier names on a record; an integer key is
\* delivered in its canonical string form
Attr(self, path) ==
    CASE path = "self.created"       -> self.created
      [] path = "self.token"         -> self.token
      [] path = "self.created_by_id" -> StrInt(self.created_by_id)
      [] path = "self.id"            -> self.id
      [] path = "self.uuid"          -> self.uuid
      [] path = "self.endpoint"      -> self.endpoint
      [] path = "self.ref"           -> self.ref

Base32 == <<"0", "1", "2", "3", "4", "5", "6", "7", "8", "9", "A", "B", "C", "D", "E", "F",
            "G", "H", "J", "K", "M", "N", "P", "Q", "R", "S", "T", "V", "W", "X", "Y", "Z">>

\* n as exactly w base-32 digits, most significant first
B32(n, w) == [i \in 1..w |-> Base32[((n \div Pow(32, w - i)) % 32) + 1]]

\* fixed-width sortable encoding of an instant at microsecond resolution:
\* day, second of day and microsecond, each at its own fixed width
TsSegment(dt) == B32(dt[1], 5) \o B32(dt[2], 4) \o B32(dt[3], 4)

RECURSIVE HashFold(_, _)
HashFold(s, n) ==
    IF n = 0 THEN 5381 ELSE (HashFold(s, n - 1) * 33 + Ascii(s[n])) % 1048576

\* digest of a value's canonical string form, as base-32 characters
\* (a 20-bit stand-in for the cryptographic hash)
HashDigest(s) == B32(HashFold(s, Len(s)), 4)

UriWidth == 3

SubtypeWidth == 2

RandWidth == 6

\* Encode(prefix, timestampValue, contentValue, subtypeValue, randomSeedValue)
Encode(prefix, ts, uri, subtype, rand) ==
    prefix \o TsSegment(ts) \o <<"_">> \o SubSeq(HashDigest(uri), 1, UriWidth)
    \o <<"_">> \o SubSeq(HashDigest(subtype), 1, SubtypeWidth)
    \o <<"_">> \o SubSeq(rand, 1, RandWidth)

\* the ABID computed from the record's live source values; a source that
\* resolves to None fails the computation
calculate_abid(self, type) ==
    LET d       == Descriptor(type)
        ts      == Attr(self, d.ts_src)
        uri     == Attr(self, d.uri_src)
        subtype == Attr(self, d.subtype_src)
        rand    == Attr(self, d.rand_src)
    IN  IF ts = None \/ uri = None \/ subtype = None \/ rand = None
        THEN ResolutionError
        ELSE Encode(d.prefix, ts, uri, subtype, rand)

\* self.ABID / self.get_abid(): computed on first request, cached on the record
get_abid(self, type) ==
    IF self.abid # None THEN self.abid ELSE calculate_abid(self, type)

\* ABID.ulid: the segments without the prefix and the separators
UlidOf(abid, type) ==
    SelectSeq(SubSeq(abid, Len(Descriptor(type).prefix) + 1, Len(abid)),
              LAMBDA c : c # "_")

\* the record with its ABID cache filled by a successful first computation
WithAbid(self, type) ==
    LET a == get_abid(self, type)
    IN  IF a = ResolutionError THEN self ELSE [self EXCEPT !.abid = a]

-----------------------------------------------------------------------------
(* APIToken projections *)

\* __json__ rendering the ABID from the live values instead of self.ABID
json_LiveAbid(self, clock) ==
    [TYPE          |-> "APIToken",
     id            |-> StrUuid(self.id),
     abid          |-> calculate_abid(self, "APIToken"),
     created_by_id |-> StrInt(self.created_by_id),
     token         |-> self.token,
     created       |-> IsoFormat(self.created),
     expires       |-> expires_as_iso8601(self, clock)]

\* APIToken.__json__
json(self, clock) ==
    [TYPE          |-> "APIToken",
     id            |-> StrUuid(self.id),
     abid          |-> get_abid(self, "APIToken"),
     created_by_id |-> StrInt(self.created_by_id),
     token         |-> self.token,
     created       |-> IsoFormat(self.created),
     expires       |-> expires_as_iso8601(self, clock)]

\* APIToken.ulid
ulid(self) == UlidOf(get_abid(self, "APIToken"), "APIToken")

-----------------------------------------------------------------------------
(* inputs *)

T0 == DateTime(2024, 1, 1, 0, 0, 0, 0)

UserIds == {1, 2}

Procs == {"p1", "p2"}

TokenSeeds == 0..(NumSeeds - 1)

\* the byte strings the random source behind uuid.uuid4 delivers
UuidSeeds == {0, 1}

NoResult == [op |-> "none"]

-----------------------------------------------------------------------------
(* storage: constraints declared on the APIToken fields *)

\* token = CharField(unique=True), id = UUIDField(primary_key=True)
UniqueViolation(row, table) ==
    \E r \in table : r.token = row.token \/ r.id = row.id

\* created_by = ForeignKey(AUTH_USER_MODEL)
ForeignKeyViolation(row, principals) == row.created_by_id \notin principals

\* an INSERT with no uniqueness constraint on the token
IntegrityError_NoUnique(row, table, principals) ==
    ForeignKeyViolation(row, principals)

\* whether the INSERT of row is rejected by the storage
IntegrityError(row, table, principals) ==
    UniqueViolation(row, table) \/ ForeignKeyViolation(row, principals)

\* deleting a principal without touching its credentials
Cascade_Nothing(table, u) == table

\* on_delete=models.CASCADE: the rows of table that survive deleting principal u
Cascade(table, u) == {r \in table : r.created_by_id # u}

\* APIToken(created_by=u, expires=e) before save: the field defaults are drawn
NewAPIToken(u, e, tseed, useed) ==
    [id            |-> uuid4(useed),
     uuid          |-> None,
     abid          |-> None,
     created_by_id |-> u,
     token         |-> generate_secret_token(tseed),
     created       |-> None,
     expires       |-> e]

-----------------------------------------------------------------------------
(* operations *)

CreateUser(u) ==
    /\ u \notin users
    /\ users' = users \cup {u}
    /\ UNCHANGED <<apitokens, webhooks, pc, inst, attempts, now, edits, result>>

DeleteUser(u) ==
    /\ u \in users
    /\ users' = users \ {u}
    /\ apitokens' = Cascade(apitokens, u)
    /\ UNCHANGED <<webhooks, pc, inst, attempts, now, edits, result>>

\* a caller builds an instance for an existing principal
Construct(p, u, e, tseed, useed) ==
    /\ pc[p] = "idle"
    /\ u \in users
    /\ inst' = [inst EXCEPT ![p] = NewAPIToken(u, e, tseed, useed)]
    /\ pc' = [pc EXCEPT ![p] = "built"]
    /\ UNCHANGED <<users, apitokens, webhooks, attempts, now, edits, result>>

\* the constraint the storage names when it rejects the INSERT of row
IntegrityErrorKind(row, table, principals) ==
    IF \E r \in table : r.token = row.token THEN "IntegrityError(token)"
    ELSE IF \E r \in table : r.id = row.id THEN "IntegrityError(id)"
    ELSE "IntegrityError(created_by_id)"

\* a save() that draws a new token and tries again when the INSERT is rejected
Save_RegenerateAndRetry(p) ==
    /\ pc[p] = "built"
    /\ attempts' = [attempts EXCEPT ![p] = @ + 1]
    /\ IF IntegrityError(inst[p], apitokens, users)
       THEN /\ IF attempts[p] < 1
               THEN /\ pc' = pc
                    /\ \E tseed \in TokenSeeds :
                          inst' = [inst EXCEPT ![p].token = generate_secret_token(tseed)]
               ELSE /\ pc' = [pc EXCEPT ![p] =
                                 IntegrityErrorKind(inst[p], apitokens, users)]
                    /\ inst' = [inst EXCEPT ![p] = None]
            /\ UNCHANGED apitokens
       ELSE /\ inst' = [inst EXCEPT ![p].created = now]
            /\ apitokens' = apitokens \cup {inst'[p]}
            /\ pc' = [pc EXCEPT ![p] = "done"]
    /\ UNCHANGED <<users, webhooks, now, edits, result>>

\* save(): one INSERT; created is stamped by auto_now_add; a rejected INSERT
\* raises the storage's IntegrityError, stores nothing and hands no instance
\* back to the caller
Save(p) ==
    /\ pc[p] = "built"
    /\ attempts' = [attempts EXCEPT ![p] = @ + 1]
    /\ IF IntegrityError(inst[p], apitokens, users)
       THEN /\ pc' = [pc EXCEPT ![p] = IntegrityErrorKind(inst[p], apitokens, users)]
            /\ inst' = [inst EXCEPT ![p] = None]
            /\ UNCHANGED apitokens
       ELSE /\ inst' = [inst EXCEPT ![p].created = now]
            /\ apitokens' = apitokens \cup {inst'[p]}
            /\ pc' = [pc EXCEPT ![p] = "done"]
    /\ UNCHANGED <<users, webhooks, now, edits, result>>

\* the caller takes the saved instance or the raised error and goes on
Finish(p) ==
    /\ pc[p] \notin {"idle", "built"}
    /\ pc' = [pc EXCEPT ![p] = "idle"]
    /\ inst' = [inst EXCEPT ![p] = None]
    /\ attempts' = [attempts EXCEPT ![p] = 0]
    /\ UNCHANGED <<users, apitokens, webhooks, now, edits, result>>

\* explicit expiry update of a stored credential
SetExpires(r, e) ==
    /\ r \in apitokens
    /\ e # r.expires
    /\ apitokens' = (apitokens \ {r}) \cup {[r EXCEPT !.expires = e]}
    /\ UNCHANGED <<users, webhooks, pc, inst, attempts, now, edits, result>>

\* the clock moves on to a later instant
Tick(t) ==
    /\ DtLess(now, t)
    /\ now' = t
    /\ UNCHANGED <<users, apitokens, webhooks, pc, inst, attempts, edits, result>>

-----------------------------------------------------------------------------
(* Spec: principals, concurrent issuance and expiry updates.  Callers build *)
(* credentials without an explicit expiry; the clock stands at T0.          *)

IssueExpiries == {None, AddDays(T0, 1)}

Init ==
    /\ users = {}
    /\ apitokens = {}
    /\ webhooks = {}
    /\ pc = [p \in Procs |-> "idle"]
    /\ inst = [p \in Procs |-> None]
    /\ attempts = [p \in Procs |-> 0]
    /\ now = T0
    /\ edits = 0
    /\ result = NoResult

Next ==
    \/ \E u \in UserIds : CreateUser(u)
    \/ \E u \in UserIds : DeleteUser(u)
    \/ \E p \in Procs, u \in UserIds, e \in {None},
          tseed \in TokenSeeds, useed \in UuidSeeds : Construct(p, u, e, tseed, useed)
    \/ \E p \in Procs : Save(p)
    \/ \E p \in Procs : Finish(p)
    \/ \E r \in apitokens, e \in IssueExpiries : SetExpires(r, e)

Spec == Init /\ [][Next]_vars

-----------------------------------------------------------------------------
(* calls on a stored credential *)

Replace(table, r, r2) == (table \ {r}) \cup {r2}

IsValidCall(r, for_date) ==
    /\ r \in apitokens
    /\ result' = [op |-> "is_valid", self |-> r, for_date |-> for_date,
                  clock |-> now, value |-> is_valid(r, for_date, now), after |-> r]
    /\ UNCHANGED <<users, apitokens, webhooks, pc, inst, attempts, now, edits>>

\* a display call that writes the value it shows back to the record
ExpiresCall_StoresSentinel(r) ==
    /\ r \in apitokens
    /\ result' = [op |-> "expires_as_iso8601", self |-> r, clock |-> now,
                  value |-> expires_as_iso8601(r, now),
                  after |-> [r EXCEPT !.expires =
                                IF Truthy(r.expires) THEN r.expires
                                ELSE AddDays(now, SentinelDays)]]
    /\ apitokens' = Replace(apitokens, r, result'.after)
    /\ UNCHANGED <<users, webhooks, pc, inst, attempts, now, edits>>

ExpiresCall(r) ==
    /\ r \in apitokens
    /\ result' = [op |-> "expires_as_iso8601", self |-> r, clock |-> now,
                  value |-> expires_as_iso8601(r, now), after |-> r]
    /\ UNCHANGED <<users, apitokens, webhooks, pc, inst, attempts, now, edits>>

\* __json__ reads self.ABID, which fills the ABID cache of the record
JsonCall(r) ==
    /\ r \in apitokens
    /\ result' = [op |-> "__json__", self |-> r, clock |-> now,
                  value |-> json(r, now), after |-> WithAbid(r, "APIToken")]
    /\ apitokens' = Replace(apitokens, r, WithAbid(r, "APIToken"))
    /\ UNCHANGED <<users, webhooks, pc, inst, attempts, now, edits>>

UlidCall(r) ==
    /\ r \in apitokens
    /\ result' = [op |-> "ulid", self |-> r, clock |-> now,
                  value |-> ulid(r), after |-> WithAbid(r, "APIToken")]
    /\ apitokens' = Replace(apitokens, r, WithAbid(r, "APIToken"))
    /\ UNCHANGED <<users, webhooks, pc, inst, attempts, now, edits>>

-----------------------------------------------------------------------------
(* SpecValidity: one issued credential, its expiry, validity and display *)

ValidityInstants ==
    {AddSeconds(T0, -1), T0, AddSeconds(T0, 1), AddDays(T0, 1), AddDays(T0, 2),
     DateTime(2074, 1, 1, 0, 0, 0, 0),
     AddDays(T0, SentinelDays),
     DateTime(2124, 1, 2, 0, 0, 0, 0),
     DateTime(2024, 2, 29, 23, 59, 59, 999999)}

ValidityClock ==
    {T0, AddSeconds(T0, 1), DateTime(2024, 2, 29, 23, 59, 59, 999999),
     AddDays(T0, 2), DateTime(2124, 1, 2, 0, 0, 0, 0)}

InitValidity ==
    /\ users = {1}
    /\ \E e \in ValidityInstants \cup {None} :
          apitokens = {[NewAPIToken(1, e, 0, 0) EXCEPT !.created = T0]}
    /\ webhooks = {}
    /\ pc = [p \in Procs |-> "idle"]
    /\ inst = [p \in Procs |-> None]
    /\ attempts = [p \in Procs |-> 0]
    /\ now = T0
    /\ edits = 0
    /\ result = NoResult

NextValidity ==
    \/ \E r \in apitokens, d \in ValidityInstants \cup {None} : IsValidCall(r, d)
    \/ \E r \in apitokens : ExpiresCall(r)
    \/ \E r \in apitokens : JsonCall(r)
    \/ \E r \in apitokens, e \in ValidityInstants \cup {None} : SetExpires(r, e)
    \/ \E t \in ValidityClock : Tick(t)

SpecValidity == InitValidity /\ [][NextValidity]_vars

-----------------------------------------------------------------------------
(* records of both types, their ABID reads and edits of source attributes *)

Endpoint1 ==
    <<"h", "t", "t", "p", "s", ":", "/", "/", "a", ".", "i", "o", "/", "h", "o", "o", "k">>

Endpoint2 ==
    <<"h", "t", "t", "p", "s", ":", "/", "/", "b", ".", "i", "o", "/", "h", "o", "o", "k">>

Ref1 ==
    <<"c", "o", "r", "e", ".", "m", "o", "d", "e", "l", "s", ".", "S", "n", "a", "p", "s", "h", "o", "t">>

Ref2 ==
    <<"c", "o", "r", "e", ".", "m", "o", "d", "e", "l", "s", ".", "A", "r", "c", "h", "i", "v", "e", "R", "e", "s", "u", "l", "t">>

\* OutboundWebhook(...) before save: uuid (the primary key) draws its default,
\* id has none; the WebhookBase fields no modelled operation reads are left out
NewWebhook(useed, idv, endpoint, ref) ==
    [id       |-> idv,
     uuid     |-> uuid4(useed),
     abid     |-> None,
     created  |-> None,
     endpoint |-> endpoint,
     ref      |-> ref]

\* uuid = UUIDField(primary_key=True), id = UUIDField(null=True, unique=True):
\* NULLs never conflict
WebhookUniqueViolation(row, table) ==
    \E r \in table : r.uuid = row.uuid \/ (row.id # None /\ r.id = row.id)

Table(type) == IF type = "APIToken" THEN apitokens ELSE webhooks

\* the number of records a behaviour of SpecAbid creates
MaxRecords == 3

\* APIToken.objects.create(created_by=u, expires=e): build and save in one step
Issue(u, e, tseed, useed) ==
    LET row == NewAPIToken(u, e, tseed, useed)
    IN  /\ Cardinality(apitokens) + Cardinality(webhooks) < MaxRecords
        /\ ~IntegrityError(row, apitokens, users)
        /\ apitokens' = apitokens \cup {[row EXCEPT !.created = now]}
        /\ UNCHANGED <<users, webhooks, pc, inst, attempts, now, edits, result>>

\* OutboundWebhook.objects.create(id=idv, endpoint=..., ref=...)
CreateWebhook(useed, idv, endpoint, ref) ==
    LET row == NewWebhook(useed, idv, endpoint, ref)
    IN  /\ Cardinality(apitokens) + Cardinality(webhooks) < MaxRecords
        /\ ~WebhookUniqueViolation(row, webhooks)
        /\ webhooks' = webhooks \cup {[row EXCEPT !.created = now]}
        /\ UNCHANGED <<users, apitokens, pc, inst, attempts, now, edits, result>>

\* a read of record.ABID: the first one computes and caches
ReadAbid(type, r) ==
    /\ r \in Table(type)
    /\ result' = [op |-> "ABID", type |-> type, cached |-> r.abid,
                  value |-> get_abid(r, type)]
    /\ IF type = "APIToken"
       THEN apitokens' = Replace(apitokens, r, WithAbid(r, type)) /\ webhooks' = webhooks
       ELSE webhooks' = Replace(webhooks, r, WithAbid(r, type)) /\ apitokens' = apitokens
    /\ UNCHANGED <<users, pc, inst, attempts, now, edits>>

\* the number of source-attribute assignments a behaviour makes
MaxEdits == 2

\* an assignment record.<field> = v to a source attribute of a record
EditSource(type, r, field, v) ==
    /\ r \in Table(type)
    /\ edits < MaxEdits
    /\ v # r[field]
    /\ edits' = edits + 1
    /\ result' = [op |-> "edit", type |-> type, self |-> r,
                  value |-> field, after |-> [r EXCEPT ![field] = v]]
    /\ IF type = "APIToken"
       THEN apitokens' = Replace(apitokens, r, [r EXCEPT ![field] = v])
            /\ webhooks' = webhooks
       ELSE webhooks' = Replace(webhooks, r, [r EXCEPT ![field] = v])
            /\ apitokens' = apitokens
    /\ UNCHANGED <<users, pc, inst, attempts, now>>

-----------------------------------------------------------------------------
(* SpecAbid: records of both types created over time, ABIDs read *)

T0us == DateTime(2024, 1, 1, 0, 0, 0, 32)

AbidClock == {T0, T0us, DateTime(2024, 1, 1, 0, 0, 1, 0), DateTime(2024, 1, 2, 0, 0, 0, 0)}

InitAbid ==
    /\ users = UserIds
    /\ apitokens = {}
    /\ webhooks = {}
    /\ pc = [p \in Procs |-> "idle"]
    /\ inst = [p \in Procs |-> None]
    /\ attempts = [p \in Procs |-> 0]
    /\ now = T0
    /\ edits = 0
    /\ result = NoResult

NextAbid ==
    \/ \E tseed \in TokenSeeds, useed \in UuidSeeds : Issue(1, None, tseed, useed)
    \/ \E useed \in UuidSeeds, idv \in {None, uuid4(1)} :
          CreateWebhook(useed, idv, Endpoint1, Ref1)
    \/ \E type \in RecordTypes, r \in apitokens \cup webhooks : ReadAbid(type, r)
    \/ \E t \in AbidClock : Tick(t)

SpecAbid == InitAbid /\ [][NextAbid]_vars

-----------------------------------------------------------------------------
(* SpecAbidCache: one record, reads of its identifier, edits of its sources *)

InitAbidCache ==
    /\ users = UserIds
    /\ \/ /\ apitokens = {[NewAPIToken(1, None, 0, 0) EXCEPT !.created = T0]}
          /\ webhooks = {}
       \/ /\ apitokens = {}
          /\ \E idv \in {None, uuid4(1)} :
                webhooks = {[NewWebhook(0, idv, Endpoint1, Ref1) EXCEPT !.created = T0]}
    /\ pc = [p \in Procs |-> "idle"]
    /\ inst = [p \in Procs |-> None]
    /\ attempts = [p \in Procs |-> 0]
    /\ now = T0
    /\ edits = 0
    /\ result = NoResult

NextAbidCache ==
    \/ \E type \in RecordTypes, r \in apitokens \cup webhooks : ReadAbid(type, r)
    \/ \E r \in apitokens : JsonCall(r)
    \/ \E r \in apitokens : UlidCall(r)
    \/ \E type \in RecordTypes, r \in apitokens \cup webhooks,
          v \in {T0, T0us, AddDays(T0, 1)} : EditSource(type, r, "created", v)
    \/ \E r \in apitokens, tseed \in TokenSeeds :
          EditSource("APIToken", r, "token", generate_secret_token(tseed))
    \/ \E r \in apitokens, u \in UserIds : EditSource("APIToken", r, "created_by_id", u)
    \/ \E type \in RecordTypes, r \in apitokens \cup webhooks,
          v \in {None} \cup {uuid4(k) : k \in UuidSeeds} : EditSource(type, r, "id", v)
    \/ \E r \in webhooks, v \in {Endpoint1, Endpoint2} :
          EditSource("OutboundWebhook", r, "endpoint", v)
    \/ \E r \in webhooks, v \in {Ref1, Ref2} : EditSource("OutboundWebhook", r, "ref", v)

SpecAbidCache == InitAbidCache /\ [][NextAbidCache]_vars

-----------------------------------------------------------------------------
(* calendar arithmetic and token shape used to state the properties *)

Min(a, b) == IF a < b THEN a ELSE b

\* the same calendar date and time of day n years later (29 February falls
\* back to 28 February in a common year)
AddYears(dt, n) ==
    LET ymd == Ord2Ymd(dt[1])
        y2  == ymd[1] + n
    IN  <<Ymd2Ord(y2, ymd[2], Min(ymd[3], DaysInMonth(y2, ymd[2]))), dt[2], dt[3]>>

HexAlphabet == {"0", "1", "2", "3", "4", "5", "6", "7", "8", "9",
                "a", "b", "c", "d", "e", "f"}

IsHex32(t) == Len(t) = 32 /\ \A i \in 1..Len(t) : t[i] \in HexAlphabet

-----------------------------------------------------------------------------
(* properties of SpecValidity *)

\* C1: is_valid(now) is false exactly when the expiry is set and lies
\* strictly before now; with no expiry, with expiry = now and with
\* expiry > now it is true; an expiry of T0 + 1 day is invalid at T0 + 2 days.
C1_IsValidContract ==
    result.op = "is_valid" =>
        LET exp == result.self.expires
            d   == IF result.for_date = None THEN result.clock ELSE result.for_date
        IN  /\ result.value \in BOOLEAN
            /\ (result.value = FALSE) <=> (exp # None /\ DtLess(exp, d))
            /\ exp = None => result.value = TRUE
            /\ exp = d => result.value = TRUE
            /\ (exp = AddDays(T0, 1) /\ d = AddDays(T0, 2)) => result.value = FALSE

\* is_valid was asked at T0 + 2 days about an expiry of T0 + 1 day
C1_Witness ==
    /\ result.op = "is_valid"
    /\ result.self.expires = AddDays(T0, 1)
    /\ result.for_date = AddDays(T0, 2)
    /\ result.value = FALSE

\* C4 as stated: with no expiry the display evaluated at instant T renders an
\* instant within 1 second of T + 100 years; with an expiry set it renders the
\* stored expiry.
C4_DisplayWithinOneSecondOfHundredYears ==
    result.op = "expires_as_iso8601" =>
        IF result.self.expires = None
        THEN \E k \in -1..1 :
                result.value = IsoFormat(AddSeconds(AddYears(result.clock, 100), k))
        ELSE result.value = IsoFormat(result.self.expires)

\* C5: the displayed sentinel is never stored and never used for validity:
\* expires_as_iso8601 and __json__ leave the stored expiry as it was, and a
\* credential with no expiry is valid at every instant, also later than
\* issuance + 100 years.
C5_SentinelIsDisplayOnly ==
    /\ []((result.op = "is_valid" /\ result.self.expires = None) => result.value = TRUE)
    /\ []((result.op \in {"expires_as_iso8601", "__json__"}) =>
            result.after.expires = result.self.expires)
    /\ [][(result' # result /\ result'.op \in {"expires_as_iso8601", "__json__"}) =>
             /\ result'.after \in apitokens'
             /\ \A r \in apitokens, r2 \in apitokens' :
                   r2.id = r.id => r2.expires = r.expires]_vars

\* is_valid was asked, after __json__ had been called, about a credential
\* with no expiry at an instant later than its creation + 100 years
C5_Witness ==
    /\ result.op = "is_valid"
    /\ result.self.expires = None
    /\ result.self.abid # None
    /\ result.for_date = None
    /\ DtLess(AddYears(result.self.created, 100), result.clock)
    /\ result.value = TRUE

-----------------------------------------------------------------------------
(* properties of Spec *)

\* C2: in every reachable state, whatever the interleaving of the issuing
\* callers, no two stored credentials hold the same token value.
C2_TokenGloballyUnique ==
    \A r1 \in apitokens, r2 \in apitokens : r1.token = r2.token => r1 = r2

\* one caller's credential is stored and another caller's save was rejected
\* for drawing a stored token
C2_Witness ==
    \E p \in Procs, q \in Procs :
        /\ pc[p] = "done"
        /\ inst[p] \in apitokens
        /\ pc[q] = "IntegrityError(token)"

C8_CascadeDelete ==
    /\ [](\A r \in apitokens : r.created_by_id \in users)
    /\ [][\A u \in users \ users' :
             apitokens' = {r \in apitokens : r.created_by_id # u}]_vars

\* a principal was deleted, its credential went with it, and a credential of
\* another principal is still stored
C8_Witness ==
    \E p \in Procs :
        /\ pc[p] = "done"
        /\ inst[p].created_by_id \notin users
        /\ inst[p] \notin apitokens
        /\ \E r \in apitokens : r.created_by_id # inst[p].created_by_id

\* C9: generate_secret_token returns exactly 32 hex characters; every stored
\* token has length 32; a credential built without an explicit expiry has a
\* generated token and no expiry; an expiry update leaves the token unchanged.
C9_TokenShape ==
    /\ [](/\ \A seed \in TokenSeeds : IsHex32(generate_secret_token(seed))
          /\ \A r \in apitokens : IsHex32(r.token)
          /\ \A p \in Procs :
                pc[p] = "built" => IsHex32(inst[p].token) /\ inst[p].expires = None)
    /\ [][\A r \in apitokens, r2 \in apitokens' :
             r2.id = r.id => r2.token = r.token]_vars

\* a credential built without expiry has since had its expiry set
C9_Witness ==
    \E r \in apitokens :
        /\ r.expires = AddDays(T0, 1)
        /\ IsHex32(r.token)
        /\ \E p \in Procs : pc[p] = "done" /\ inst[p].id = r.id /\ inst[p].expires = None

-----------------------------------------------------------------------------
(* properties of SpecAbid *)

\* the timestamp segment of an assembled ABID: the 13 characters after the
\* 4-character prefix
TimestampSegment(abid) == SubSeq(abid, 5, 17)

C7_RandSourceIsPrimaryKey ==
    \A type \in RecordTypes :
        /\ \A r \in Table(type) :
              /\ Attr(r, Descriptor(type).rand_src) # None
              /\ Attr(r, Descriptor(type).rand_src) = Attr(r, Descriptor(type).pk)
              /\ calculate_abid(r, type) # ResolutionError
        /\ \A r1 \in Table(type), r2 \in Table(type) :
              (/\ r1 # r2
               /\ Attr(r1, Descriptor(type).ts_src) = Attr(r2, Descriptor(type).ts_src)
               /\ Attr(r1, Descriptor(type).uri_src) = Attr(r2, Descriptor(type).uri_src)
               /\ Attr(r1, Descriptor(type).subtype_src)
                     = Attr(r2, Descriptor(type).subtype_src))
              => calculate_abid(r1, type) # calculate_abid(r2, type)

-----------------------------------------------------------------------------
(* properties of SpecAbidCache *)

====
